---- MODULE Spec2Model ----
(***************************************************************************)
(* A model of bson.py: the structural validator (is_valid), the decoder    *)
(* (BSON.to_dict) and the encoder (BSON.from_dict) of BSON documents.      *)
(*                                                                         *)
(* A byte string (Python 2 str) is a sequence of integers 0..255, a text   *)
(* (Python 2 unicode) is a sequence of code points.  A call that raises    *)
(* is a record whose err field names the exception; err = "ok" is a        *)
(* normal return.  The tr field of a result is an observation of the walk  *)
(* (which elements and documents were visited, and how many bytes each     *)
(* took); the program keeps no such trace, the properties read it.         *)
(***************************************************************************)
EXTENDS Integers, Sequences, FiniteSets, TLC

(***************************************************************************)
(* Python sequence primitives                                              *)
(***************************************************************************)

\* s[lo:hi] of Python: negative bounds count from the end, both are clamped.
PyClamp(i, n) == IF i < 0 THEN (IF i + n < 0 THEN 0 ELSE i + n)
                 ELSE (IF i > n THEN n ELSE i)

PySlice(s, lo, hi) == SubSeq(s, PyClamp(lo, Len(s)) + 1, PyClamp(hi, Len(s)))

\* s[lo:]
PyFrom(s, lo) == PySlice(s, lo, Len(s))

\* s[i] of Python is defined when -len <= i < len, otherwise IndexError.
PyIndexOk(s, i) == /\ i < Len(s)
                   /\ i + Len(s) >= 0

PyIndex(s, i) == IF i < 0 THEN s[i + Len(s) + 1] ELSE s[i + 1]

\* data.index("\x00"): the 1-based position of the first zero byte, 0 if none.
FirstZero(s) == IF \E i \in 1..Len(s) : s[i] = 0
                THEN CHOOSE i \in 1..Len(s) : s[i] = 0 /\ \A j \in 1..(i - 1) : s[j] # 0
                ELSE 0

RECURSIVE Concat(_)
Concat(ss) == IF ss = <<>> THEN <<>> ELSE Head(ss) \o Concat(Tail(ss))

(***************************************************************************)
(* struct.pack / struct.unpack                                             *)
(***************************************************************************)

\* struct.unpack("<i", b): four bytes, little-endian, two's complement.
UnpackInt(b) == b[1] + 256 * b[2] + 65536 * b[3]
                + 16777216 * (IF b[4] >= 128 THEN b[4] - 256 ELSE b[4])

\* struct.pack("<i", v) for v in -2^31 .. 2^31-1.
PackInt(v) ==
    LET u == IF v >= 0 THEN v ELSE (v + 2147483647) + 1     \* v + 2^31, low 31 bits
    IN  << u % 256,
           (u \div 256) % 256,
           (u \div 65536) % 256,
           (u \div 16777216) + (IF v >= 0 THEN 0 ELSE 128) >>

\* A float is the fields of its IEEE-754 double, <<sign, exp, hi, mid, lo>>:
\* the sign bit, the 11-bit exponent and the 52-bit fraction, the fraction
\* split in 20 + 16 + 16 bits.
\* struct.pack("<d", f)
PackDouble(f) ==
    << f[5] % 256, f[5] \div 256,
       f[4] % 256, f[4] \div 256,
       f[3] % 256, (f[3] \div 256) % 256,
       (f[2] % 16) * 16 + (f[3] \div 65536),
       f[1] * 128 + (f[2] \div 16) >>

\* struct.unpack("<d", b)
UnpackDouble(b) ==
    << b[8] \div 128,
       (b[8] % 128) * 16 + (b[7] \div 16),
       (b[7] % 16) * 65536 + b[6] * 256 + b[5],
       b[4] * 256 + b[3],
       b[2] * 256 + b[1] >>

(***************************************************************************)
(* UTF-8: unicode(bytes, "utf-8") and text.encode("utf-8")                 *)
(***************************************************************************)

IsCont(b) == b >= 128 /\ b <= 191

\* Number of bytes of the sequence that starts with lead byte b; 0: no lead.
Utf8Need(b) == IF b < 128 THEN 1
               ELSE IF b >= 194 /\ b <= 223 THEN 2
               ELSE IF b >= 224 /\ b <= 239 THEN 3
               ELSE IF b >= 240 /\ b <= 244 THEN 4
               ELSE 0

\* The sequence s[i..i+n-1] is a well-formed encoding (no overlong form,
\* nothing above U+10FFFF).
Utf8SeqOk(s, i, n) ==
    /\ n > 0
    /\ i + n - 1 <= Len(s)
    /\ \A j \in (i + 1)..(i + n - 1) : IsCont(s[j])
    /\ (s[i] = 224 => s[i + 1] >= 160)
    /\ (s[i] = 240 => s[i + 1] >= 144)
    /\ (s[i] = 244 => s[i + 1] <= 143)

Utf8Point(s, i, n) ==
    IF n = 1 THEN s[i]
    ELSE IF n = 2 THEN (s[i] - 192) * 64 + (s[i + 1] - 128)
    ELSE IF n = 3 THEN (s[i] - 224) * 4096 + (s[i + 1] - 128) * 64 + (s[i + 2] - 128)
    ELSE (s[i] - 240) * 262144 + (s[i + 1] - 128) * 4096
         + (s[i + 2] - 128) * 64 + (s[i + 3] - 128)

RECURSIVE Utf8DecodeFrom(_, _)
Utf8DecodeFrom(s, i) ==
    IF i > Len(s) THEN [err |-> "ok", val |-> <<>>]
    ELSE LET n == Utf8Need(s[i])
         IN  IF ~Utf8SeqOk(s, i, n) THEN [err |-> "UnicodeDecodeError", val |-> <<>>]
             ELSE LET r == Utf8DecodeFrom(s, i + n)
                  IN  IF r.err # "ok" THEN r
                      ELSE [err |-> "ok", val |-> <<Utf8Point(s, i, n)>> \o r.val]

\* unicode(s, "utf-8")
Utf8Decode(s) == Utf8DecodeFrom(s, 1)

Utf8EncodePoint(c) ==
    IF c < 128 THEN <<c>>
    ELSE IF c < 2048 THEN <<192 + (c \div 64), 128 + (c % 64)>>
    ELSE IF c < 65536 THEN <<224 + (c \div 4096), 128 + ((c \div 64) % 64), 128 + (c % 64)>>
    ELSE <<240 + (c \div 262144), 128 + ((c \div 4096) % 64),
           128 + ((c \div 64) % 64), 128 + (c % 64)>>

\* text.encode("utf-8")
Utf8Encode(t) == Concat([i \in 1..Len(t) |-> Utf8EncodePoint(t[i])])

(***************************************************************************)
(* Native values                                                           *)
(*                                                                         *)
(* A value is a record [k, n, c].  k is the Python type: "float", "text"   *)
(* (unicode), "bool", "int", "dict", "list", "none".  n holds a scalar:    *)
(* the fields of a float, the code points of a text, <<1>> or <<0>> for    *)
(* True or False, <<i>> for the int i.  c holds the items [key, val] of a  *)
(* dict in iteration order, with distinct keys that are texts, or the      *)
(* elements of a list (items whose key is left empty).                     *)
(***************************************************************************)

PyNone == [k |-> "none", n |-> <<>>, c |-> <<>>]

PyFloat(f) == [k |-> "float", n |-> f, c |-> <<>>]

PyText(t) == [k |-> "text", n |-> t, c |-> <<>>]

PyBool(b) == [k |-> "bool", n |-> IF b THEN <<1>> ELSE <<0>>, c |-> <<>>]

PyInt(i) == [k |-> "int", n |-> <<i>>, c |-> <<>>]

Item(key, val) == [key |-> key, val |-> val]

PyList(values) ==
    [k |-> "list", n |-> <<>>, c |-> [i \in 1..Len(values) |-> Item(<<>>, values[i])]]

PyDict(items) == [k |-> "dict", n |-> <<>>, c |-> items]

EmptyDict == PyDict(<<>>)

\* The values held by a dict or a list.
Children(value) == [i \in 1..Len(value.c) |-> value.c[i].val]

DictHas(d, key) == \E i \in 1..Len(d.c) : d.c[i].key = key

DictGet(d, key) == d.c[CHOOSE i \in 1..Len(d.c) : d.c[i].key = key].val

\* result[key] = value
DictSet(d, key, value) ==
    PyDict(IF DictHas(d, key)
           THEN [i \in 1..Len(d.c) |-> IF d.c[i].key = key THEN Item(key, value) ELSE d.c[i]]
           ELSE Append(d.c, Item(key, value)))

\* str(i) for i >= 0, as a text.
RECURSIVE PyStr(_)
PyStr(i) == IF i < 10 THEN <<48 + i>> ELSE PyStr(i \div 10) \o <<48 + (i % 10)>>

(***************************************************************************)
(* Results                                                                 *)
(***************************************************************************)

\* A getter returns a value and the bytes that follow it.
Got(val, rest, tr) == [err |-> "ok", val |-> val, rest |-> rest, tr |-> tr]

Fail(e) == [err |-> e, val |-> PyNone, rest |-> <<>>, tr |-> <<>>]

\* A validator returns the bytes that follow what it validated.
Ok(rest, tr) == Got(PyNone, rest, tr)

Raise(e) == Fail(e)

\* A call and what is done with what it returns; an exception of the call
\* goes up to the caller.
Try(r, then(_)) == IF r.err # "ok" THEN Fail(r.err) ELSE then(r)

(***************************************************************************)
(* Byte primitives                                                         *)
(***************************************************************************)

_get_int(data) ==
    IF Len(data) < 4 THEN Fail("InvalidBSON")
    ELSE Got(PyInt(UnpackInt(SubSeq(data, 1, 4))), PyFrom(data, 4), <<>>)

_get_c_string(data) ==
    LET end == FirstZero(data)
    IN  IF end = 0 THEN Fail("InvalidBSON")
        ELSE Try(Utf8Decode(SubSeq(data, 1, end - 1)),
                 LAMBDA u : Got(PyText(u.val), PyFrom(data, end), <<>>))

_make_c_string(string) == Utf8Encode(string) \o <<0>>

(***************************************************************************)
(* Validator                                                               *)
(***************************************************************************)

\* Observation of one element: its tag and the payload bytes taken for it.
ElemEvent(tag, n) == [e |-> "elem", tag |-> tag, n |-> n, L |-> 0, eoo |-> 0]

\* Observation of one document: its declared length L, the bytes of its
\* elements, and the byte at offset L-1 of the document (-1 if there is none).
DocEvent(data, L, n) ==
    [e |-> "doc", tag |-> 0, n |-> n, L |-> L,
     eoo |-> IF L >= 1 /\ L <= Len(data) THEN data[L] ELSE -1]

_validate_number(data) ==
    IF ~(Len(data) >= 8) THEN Raise("AssertionError")
    ELSE Ok(PyFrom(data, 8), <<>>)

_validate_string(data) ==
    Try(_get_int(data),
        LAMBDA g :
            LET length == g.val.n[1]
                d == g.rest
            IN  IF ~(Len(d) >= length) THEN Raise("AssertionError")
                ELSE IF ~PyIndexOk(d, length - 1) THEN Raise("IndexError")
                ELSE IF ~(PyIndex(d, length - 1) = 0) THEN Raise("AssertionError")
                ELSE Ok(PyFrom(d, length), <<>>))

\* _valid_object_name = re.compile("^.*$"): "." is any character but a
\* newline, "$" is the end of the text or the place before a final newline.
_valid_object_name(name) ==
    \A i \in 1..Len(name) : name[i] = 10 => i = Len(name)

\* _valid_array_name = re.compile("^\d+$")
_valid_array_name(name) ==
    LET n == IF name # <<>> /\ name[Len(name)] = 10 /\ Len(name) > 1
             THEN Len(name) - 1 ELSE Len(name)
    IN  /\ n >= 1
        /\ \A i \in 1..n : name[i] >= 48 /\ name[i] <= 57
        /\ (n < Len(name) => name[Len(name)] = 10)

\* valid_name.match(element_name)
NameMatch(valid_name, name) ==
    IF valid_name = "array" THEN _valid_array_name(name) ELSE _valid_object_name(name)

_validate_binary(data) ==
    Try(_get_int(data),
        LAMBDA g :
            IF ~(Len(g.rest) >= g.val.n[1]) THEN Raise("AssertionError")
            ELSE Ok(PyFrom(g.rest, g.val.n[1]), <<>>))

_validate_undefined(data) == Ok(data, <<>>)

_OID_SIZE == 12

_validate_oid(data) ==
    IF ~(Len(data) >= _OID_SIZE) THEN Raise("AssertionError")
    ELSE Ok(PyFrom(data, _OID_SIZE), <<>>)

_validate_boolean(data) ==
    IF ~(Len(data) >= 1) THEN Raise("AssertionError")
    ELSE Ok(PyFrom(data, 1), <<>>)

_DATE_SIZE == 8

_validate_date(data) ==
    IF ~(Len(data) >= _DATE_SIZE) THEN Raise("AssertionError")
    ELSE Ok(PyFrom(data, _DATE_SIZE), <<>>)

_validate_null(data) == _validate_undefined(data)

_validate_regex(data) ==
    Try(_get_c_string(data),
        LAMBDA r : Try(_get_c_string(r.rest), LAMBDA o : Ok(o.rest, <<>>)))

_validate_ref(data) ==
    Try(_get_c_string(data), LAMBDA r : _validate_oid(r.rest))

_validate_code(data) == _validate_string(data)

_validate_symbol(data) == _validate_string(data)

_validate_number_int(data) ==
    IF ~(Len(data) >= 4) THEN Raise("AssertionError")
    ELSE Ok(PyFrom(data, 4), <<>>)

RECURSIVE _validate_document(_, _)
RECURSIVE _validate_elements(_, _)

_validate_object(data) == _validate_document(data, "object")

_validate_array(data) == _validate_document(data, "array")

\* The tags of the dispatch table _element_validator.
ValidatorTags == {1, 2, 3, 4, 5, 6, 7, 8, 9, 10, 11, 12, 13, 14, 16}

_element_validator(type, data) ==
    CASE type = 1  -> _validate_number(data)
      [] type = 2  -> _validate_string(data)
      [] type = 3  -> _validate_object(data)
      [] type = 4  -> _validate_array(data)
      [] type = 5  -> _validate_binary(data)
      [] type = 6  -> _validate_undefined(data)
      [] type = 7  -> _validate_oid(data)
      [] type = 8  -> _validate_boolean(data)
      [] type = 9  -> _validate_date(data)
      [] type = 10 -> _validate_null(data)
      [] type = 11 -> _validate_regex(data)
      [] type = 12 -> _validate_ref(data)
      [] type = 13 -> _validate_code(data)
      [] type = 14 -> _validate_symbol(data)
      [] type = 16 -> _validate_number_int(data)

\* The lookup of an unknown tag raises KeyError, turned into InvalidBSON.
_validate_element_data(type, data) ==
    IF type \notin ValidatorTags THEN Raise("InvalidBSON")
    ELSE _element_validator(type, data)

\* _validate_element with the payload looked for at the tag byte instead of
\* after the name: an element without a payload then hands back the bytes
\* it was given.
_validate_element_in_place(data, valid_name) ==
    Try(_get_c_string(Tail(data)),
        LAMBDA c :
            IF ~NameMatch(valid_name, c.val.n) THEN Raise("AssertionError")
            ELSE Try(_validate_element_data(data[1], data),
                     LAMBDA r : Ok(r.rest, <<ElemEvent(data[1], Len(data) - Len(r.rest))>> \o r.tr)))

\* data is not empty: the walk calls it only while bytes are left.  data[1]
\* is element_type.
_validate_element(data, valid_name) ==
    Try(_get_c_string(Tail(data)),
        LAMBDA c :
            IF ~NameMatch(valid_name, c.val.n) THEN Raise("AssertionError")
            ELSE Try(_validate_element_data(data[1], c.rest),
                     LAMBDA r : Ok(r.rest, <<ElemEvent(data[1], Len(c.rest) - Len(r.rest))>> \o r.tr)))

_validate_elements(data, valid_name) ==
    IF data = <<>> THEN Ok(<<>>, <<>>)
    ELSE Try(_validate_element(data, valid_name),
             LAMBDA r : Try(_validate_elements(r.rest, valid_name),
                            LAMBDA s : Ok(<<>>, r.tr \o s.tr)))

_validate_document(data, valid_name) ==
    IF Len(data) < 4 THEN Raise("InvalidBSON")
    ELSE LET obj_size == UnpackInt(SubSeq(data, 1, 4))
             object == PySlice(data, 4, obj_size)
         IN  IF ~(obj_size <= Len(data)) THEN Raise("AssertionError")
             ELSE IF ~(Len(object) # 0) THEN Raise("AssertionError")
             ELSE IF ~(object[Len(object)] = 0) THEN Raise("AssertionError")
             ELSE Try(_validate_elements(SubSeq(object, 1, Len(object) - 1), valid_name),
                      LAMBDA r : Ok(PyFrom(data, obj_size),
                                    <<DocEvent(data, obj_size, Len(object) - 1)>> \o r.tr))

\* The kinds of Python value a caller can hand to is_valid.
ByteKinds == {"str", "BSON"}

\* What is_valid makes of an exception: it catches two.
Outcome(e) == IF e \in {"AssertionError", "InvalidBSON"} THEN "False" ELSE e

\* The try statement of is_valid, on what _validate_document gave.
Verdict(r) ==
    IF r.err # "ok" THEN Outcome(r.err)
    ELSE IF r.rest = <<>> THEN "True" ELSE "False"

\* is_valid without the test of the remainder: bytes after the document
\* pass.
is_valid_any_remainder(kind, bson) ==
    IF kind \notin ByteKinds THEN "TypeError"
    ELSE Verdict(Try(_validate_document(bson, "object"), LAMBDA r : Ok(<<>>, r.tr)))

\* is_valid(bson): "True", "False", or the name of the exception it raises.
is_valid(kind, bson) ==
    IF kind \notin ByteKinds THEN "TypeError"
    ELSE Verdict(_validate_document(bson, "object"))

(***************************************************************************)
(* Decoder                                                                 *)
(***************************************************************************)

\* The tags of the dispatch table _element_getter.
GetterTags == {1, 2, 3, 4, 8, 16}

_get_number(data) ==
    IF Len(data) < 8 THEN Fail("struct.error")
    ELSE Got(PyFloat(UnpackDouble(SubSeq(data, 1, 8))), PyFrom(data, 8), <<>>)

_get_string(data) == _get_c_string(PyFrom(data, 4))

_get_boolean(data) ==
    IF data = <<>> THEN Fail("IndexError")
    ELSE Got(PyBool(data[1] = 1), PyFrom(data, 1), <<>>)

RECURSIVE _document_to_dict(_)
RECURSIVE _elements_to_dict(_, _)

_get_object(data) == _document_to_dict(data)

\* The loop of _get_array going on after a missing number.
RECURSIVE ArrayProbePastGap(_, _)
ArrayProbePastGap(dict, i) ==
    IF i > Len(dict.c) THEN <<>>
    ELSE IF DictHas(dict, PyStr(i))
    THEN <<DictGet(dict, PyStr(i))>> \o ArrayProbePastGap(dict, i + 1)
    ELSE ArrayProbePastGap(dict, i + 1)

\* The loop of _get_array: result.append(dict[str(i)]) until a KeyError.
RECURSIVE ArrayProbe(_, _)
ArrayProbe(dict, i) ==
    IF DictHas(dict, PyStr(i)) THEN <<DictGet(dict, PyStr(i))>> \o ArrayProbe(dict, i + 1)
    ELSE <<>>

_get_array(data) ==
    Try(_get_object(data), LAMBDA r : Got(PyList(ArrayProbe(r.val, 0)), r.rest, r.tr))

_element_getter(type, data) ==
    CASE type = 1  -> _get_number(data)
      [] type = 2  -> _get_string(data)
      [] type = 3  -> _get_object(data)
      [] type = 4  -> _get_array(data)
      [] type = 8  -> _get_boolean(data)
      [] type = 16 -> _get_int(data)

\* data is not empty; data[1] is element_type.  The name and the value are
\* returned as one item, in the c field of the result's val.
_element_to_dict(data) ==
    Try(_get_c_string(Tail(data)),
        LAMBDA c :
            IF data[1] \notin GetterTags THEN Fail("KeyError")
            ELSE Try(_element_getter(data[1], c.rest),
                     LAMBDA r : Got(PyDict(<<Item(c.val.n, r.val)>>), r.rest,
                                    <<ElemEvent(data[1], Len(c.rest) - Len(r.rest))>> \o r.tr)))

\* The loop of _elements_to_dict; result is the dict built so far.
_elements_to_dict(data, result) ==
    IF data = <<>> THEN Got(result, <<>>, <<>>)
    ELSE Try(_element_to_dict(data),
             LAMBDA r :
                 Try(_elements_to_dict(r.rest, DictSet(result, r.val.c[1].key, r.val.c[1].val)),
                     LAMBDA s : Got(s.val, <<>>, r.tr \o s.tr)))

_document_to_dict(data) ==
    IF Len(data) < 4 THEN Fail("struct.error")
    ELSE LET obj_size == UnpackInt(SubSeq(data, 1, 4))
             elements == PySlice(data, 4, obj_size - 1)
         IN  Try(_elements_to_dict(elements, EmptyDict),
                 LAMBDA r : Got(r.val, PyFrom(data, obj_size), r.tr))

\* BSON.to_dict(self)
to_dict(self) ==
    Try(_document_to_dict(self), LAMBDA r : Got(r.val, <<>>, r.tr))

(***************************************************************************)
(* Encoder                                                                 *)
(***************************************************************************)

\* A produced byte string under its tag (0 for a document), or the exception
\* raised instead.
Tagged(tag, bytes) == [err |-> "ok", tag |-> tag, bytes |-> bytes]

Made(bytes) == Tagged(0, bytes)

NotMade(e) == [err |-> e, tag |-> 0, bytes |-> <<>>]

\* A call of the encoder and what is done with what it returns; an exception
\* of the call goes up to the caller.
TryMade(r, then(_)) == IF r.err # "ok" THEN NotMade(r.err) ELSE then(r)

_int_to_bson(int) == PackInt(int)

\* dict(zip([str(i) for i in range(len(value))], value)).  CPython 2 iterates
\* a dict by hash slot, and the one-digit key str(i) lies in slot i+1 for an
\* even i and in slot i-1 for an odd i (up to ten items, no collision).
ZipDictIndex(n) ==
    LET at(s) == IF s % 2 = 0 THEN s + 1 ELSE s - 1
    IN  SelectSeq([s \in 1..(n + 1) |-> at(s - 1)], LAMBDA i : i < n)

ZipDict(value) ==
    LET idx == ZipDictIndex(Len(value))
    IN  PyDict([p \in 1..Len(idx) |-> Item(PyStr(idx[p]), value[idx[p] + 1])])

\* BSON.__new__ on what is_valid gave.
NewOrRaise(ok, bson) ==
    IF ok = "True" THEN Made(bson)
    ELSE IF ok = "False" THEN NotMade("InvalidBSON")
    ELSE NotMade(ok)

\* BSON.__new__(cls, bson)
BSON(kind, bson) == NewOrRaise(is_valid(kind, bson), bson)

RECURSIVE from_dict(_)
RECURSIVE ElementsToBson(_)

\* _value_to_bson with the test for an int ahead of the test for a bool: a
\* bool is an int in Python, and is then written as one.
_value_to_bson_int_first(value) ==
    IF value.k = "float" THEN Tagged(1, PackDouble(value.n))
    ELSE IF value.k = "text"
    THEN LET cstring == _make_c_string(value.n)
             length == _int_to_bson(Len(cstring))
         IN  Tagged(2, length \o cstring)
    ELSE IF value.k = "dict"
    THEN TryMade(from_dict(value), LAMBDA b : Tagged(3, b.bytes))
    ELSE IF value.k = "list"
    THEN TryMade(from_dict(ZipDict(Children(value))), LAMBDA b : Tagged(4, b.bytes))
    ELSE IF value.k \in {"int", "bool"}
    THEN Tagged(16, _int_to_bson(value.n[1]))
    ELSE NotMade("InvalidDocument")

\* The tag and the bytes that _value_to_bson returns.
_value_to_bson(value) ==
    IF value.k = "float" THEN Tagged(1, PackDouble(value.n))
    ELSE IF value.k = "text"
    THEN LET cstring == _make_c_string(value.n)
             length == _int_to_bson(Len(cstring))
         IN  Tagged(2, length \o cstring)
    ELSE IF value.k = "dict"
    THEN TryMade(from_dict(value), LAMBDA b : Tagged(3, b.bytes))
    ELSE IF value.k = "list"
    THEN TryMade(from_dict(ZipDict(Children(value))), LAMBDA b : Tagged(4, b.bytes))
    ELSE IF value.k = "bool"
    THEN Tagged(8, IF value.n = <<1>> THEN <<1>> ELSE <<0>>)
    ELSE IF value.k = "int"
    THEN Tagged(16, _int_to_bson(value.n[1]))
    ELSE NotMade("InvalidDocument")

\* Keys are texts here, so the TypeError for a key of another type never arises.
_element_to_bson(key, value) ==
    TryMade(_value_to_bson(value),
            LAMBDA r : Made(<<r.tag>> \o _make_c_string(key) \o r.bytes))

\* "".join([_element_to_bson(key, value) for (key, value) in dict.iteritems()])
ElementsToBson(items) ==
    IF items = <<>> THEN Made(<<>>)
    ELSE TryMade(_element_to_bson(items[1].key, items[1].val),
                 LAMBDA e : TryMade(ElementsToBson(Tail(items)),
                                    LAMBDA r : Made(e.bytes \o r.bytes)))

\* BSON.from_dict(cls, dict)
from_dict(dict) ==
    IF dict.k # "dict" THEN NotMade("TypeError")
    ELSE TryMade(ElementsToBson(dict.c),
                 LAMBDA elements :
                     BSON("str", _int_to_bson(Len(elements.bytes) + 5)
                                 \o elements.bytes \o <<0>>))

(***************************************************************************)
(* The inputs                                                              *)
(*                                                                         *)
(* A caller either hands a byte string to is_valid / BSON(...), or a       *)
(* native dict to BSON.from_dict.  Both inputs are built step by step      *)
(* here, from the small sets below.                                        *)
(***************************************************************************)

\* Bounds of the byte strings.
MaxRaw == 4

MaxOps == 3

MaxNeg == 3

\* Bounds of the native dicts.
MaxItems == 2

MaxDepth == 1

\* Bytes of a length-prefixed payload: zero and a tag (0x10).
RawBytes == {0, 16}

\* Element names on the wire: "", "0", "1", "00", and a byte that is no UTF-8.
Names == {<<>>, <<48>>, <<49>>, <<48, 48>>, <<255>>}

\* The tags of the elements that are added whole; tag 15 is in no dispatch
\* table.
ElemTags == {1, 5, 6, 7, 8, 9, 10, 11, 12, 13, 14, 15, 16}

\* The tags added at any place and under any name; the others are added as a
\* first element under the name "".
CommonTags == {6, 8}

Zeros(n) == [i \in 1..n |-> 0]

Payloads(tag) ==
    CASE tag = 1  -> {<<0, 0, 0, 0, 0, 0, 248, 63>>}
      [] tag = 5  -> {<<1, 0, 0, 0, 97>>}
      [] tag = 7  -> {Zeros(12)}
      [] tag = 8  -> {<<0>>, <<1>>}
      [] tag = 9  -> {Zeros(8)}
      [] tag = 11 -> {<<97, 0, 0>>}
      [] tag = 12 -> {<<97, 0>> \o Zeros(12)}
      [] tag = 13 -> {<<2, 0, 0, 0, 97, 0>>}
      [] tag = 14 -> {<<2, 0, 0, 0, 97, 0>>}
      [] tag = 16 -> {<<100, 0, 0, 0>>}
      [] OTHER    -> {<<>>}

\* The tags whose payload is built from raw bytes: String and Binary.
BlobTags == {2, 5}

\* The tags whose payload is a document.
DocTags == {3, 4}

\* The lengths declared for a payload or document of n bytes.
Declared(n) == {n, n - 1} \cup {-i : i \in 0..MaxNeg}

\* The lengths and last bytes tried for the top-level document of n bytes.
TopDeclared(n) == {<<n, 0>>, <<n, 1>>, <<n - 1, 0>>, <<-1, 0>>}

\* Python types that are no byte string.
OtherKinds == {"int", "unicode", "float", "NoneType"}

\* Keys of the native dicts: "a", "0", "<newline>a", "e-acute".
Keys == {<<97>>, <<48>>, <<10, 97>>, <<233>>}

\* 1.5
OneAndHalf == <<0, 1023, 524288, 0, 0>>

\* The values that are no dict and no list: 1.5, u"a", u"a\0b", True, False,
\* 1, -10120.
Scalars == { PyFloat(OneAndHalf), PyText(<<97>>), PyText(<<97, 0, 98>>),
             PyBool(TRUE), PyBool(FALSE), PyInt(1), PyInt(-10120) }

\* How deep the dicts and lists of a value nest.
RECURSIVE Depth(_)
RECURSIVE DepthAll(_)
Depth(value) == IF value.k \in {"dict", "list"} THEN 1 + DepthAll(Children(value)) ELSE 0
DepthAll(values) ==
    IF values = <<>> THEN 0
    ELSE LET h == Depth(Head(values))
             t == DepthAll(Tail(values))
         IN  IF h > t THEN h ELSE t

\* The number of dict items and list elements in a value.
RECURSIVE Size(_)
RECURSIVE SizeAll(_)
Size(value) == SizeAll(Children(value)) + Len(Children(value))
SizeAll(values) == IF values = <<>> THEN 0 ELSE Size(Head(values)) + SizeAll(Tail(values))

(***************************************************************************)
(* State                                                                   *)
(***************************************************************************)

VARIABLES
    pc,      \* "build", "ready", "walking", "checked", "made", "decoded"
    src,     \* what is being built: "none", "bytes", "dict"
    body,    \* the element bytes built so far
    nops,    \* the elements and wrappings added to body
    doc,     \* the native dict built so far
    inkind,  \* the Python type of the argument
    buf,     \* the byte string handed to is_valid / BSON(...), or made by from_dict
    valid,   \* what is_valid(buf) returned or raised; "none" before the call
    bson,    \* what BSON(buf) or BSON.from_dict(doc) returned or raised
    dec,     \* what bson.to_dict() returned or raised
    stack    \* the calls of _validate_document in progress, when is_valid
             \* is followed one element at a time

vars == <<pc, src, body, nops, doc, inkind, buf, valid, bson, dec, stack>>

NoBson == NotMade("none")

NoDec == Fail("none")

Init ==
    /\ pc = "build"
    /\ src = "none"
    /\ body = <<>>
    /\ nops = 0
    /\ doc = EmptyDict
    /\ inkind = "str"
    /\ buf = <<>>
    /\ valid = "none"
    /\ bson = NoBson
    /\ dec = NoDec
    /\ stack = <<>>

(***************************************************************************)
(* Building a byte string                                                  *)
(***************************************************************************)

Building(what) == pc = "build" /\ src \in {"none", what}

\* One more byte of what becomes a length-prefixed payload.
Raw(b) ==
    /\ Building("bytes")
    /\ nops = 0
    /\ Len(body) < MaxRaw
    /\ body' = Append(body, b)
    /\ src' = "bytes"
    /\ UNCHANGED <<pc, nops, doc, inkind, buf, valid, bson, dec, stack>>

\* The bytes so far become the payload of a String or Binary element named
\* ""; a String payload gets its final zero byte.  One element may follow.
WrapBlob(tag) ==
    /\ Building("bytes")
    /\ nops = 0
    /\ LET content == IF tag = 5 THEN body ELSE Append(body, 0)
       IN  \E length \in Declared(Len(content)) :
               body' = <<tag, 0>> \o PackInt(length) \o content
    /\ nops' = MaxOps - 1
    /\ src' = "bytes"
    /\ UNCHANGED <<pc, doc, inkind, buf, valid, bson, dec, stack>>

\* One more element after the bytes so far.
Elem(tag, name) ==
    /\ Building("bytes")
    /\ nops < MaxOps
    /\ nops = 0 => body = <<>>
    /\ tag \notin CommonTags => body = <<>> /\ name = <<>>
    /\ \E payload \in Payloads(tag) :
           body' = body \o <<tag>> \o name \o <<0>> \o payload
    /\ nops' = nops + 1
    /\ src' = "bytes"
    /\ UNCHANGED <<pc, doc, inkind, buf, valid, bson, dec, stack>>

\* The elements so far become an embedded document or array named "".
WrapDoc(tag) ==
    /\ Building("bytes")
    /\ nops < MaxOps
    /\ nops = 0 => body = <<>>
    /\ \E length \in Declared(Len(body) + 5) :
           body' = <<tag, 0>> \o PackInt(length) \o body \o <<0>>
    /\ nops' = nops + 1
    /\ src' = "bytes"
    /\ UNCHANGED <<pc, doc, inkind, buf, valid, bson, dec, stack>>

\* The elements so far become the top-level document: the argument.
Finish ==
    /\ Building("bytes")
    /\ nops = 0 => body = <<>>
    /\ \E t \in TopDeclared(Len(body) + 5) :
           buf' = PackInt(t[1]) \o body \o <<t[2]>>
    /\ pc' = "ready"
    /\ src' = "bytes"
    /\ UNCHANGED <<body, nops, doc, inkind, valid, bson, dec, stack>>

\* The argument is no byte string at all.
WrongKind(kind) ==
    /\ pc = "build"
    /\ src = "none"
    /\ inkind' = kind
    /\ pc' = "ready"
    /\ src' = "bytes"
    /\ UNCHANGED <<body, nops, doc, buf, valid, bson, dec, stack>>

(***************************************************************************)
(* Building a native dict                                                  *)
(***************************************************************************)

\* One more item in the dict.
AddItem(key, value) ==
    /\ Building("dict")
    /\ Size(doc) < MaxItems
    /\ ~DictHas(doc, key)
    /\ doc' = DictSet(doc, key, value)
    /\ src' = "dict"
    /\ UNCHANGED <<pc, body, nops, inkind, buf, valid, bson, dec, stack>>

\* The dict so far becomes the one value of a new dict.
NestDict(key) ==
    /\ Building("dict")
    /\ Depth(doc) <= MaxDepth
    /\ doc' = DictSet(EmptyDict, key, doc)
    /\ src' = "dict"
    /\ UNCHANGED <<pc, body, nops, inkind, buf, valid, bson, dec, stack>>

\* The values of the dict so far become a list, the one value of a new dict.
NestList(key) ==
    /\ Building("dict")
    /\ Depth(doc) <= MaxDepth
    /\ doc' = DictSet(EmptyDict, key, PyList(Children(doc)))
    /\ src' = "dict"
    /\ UNCHANGED <<pc, body, nops, inkind, buf, valid, bson, dec, stack>>

(***************************************************************************)
(* The operations                                                          *)
(***************************************************************************)

\* is_valid(buf)
IsValid ==
    /\ pc = "ready"
    /\ valid' = is_valid(inkind, buf)
    /\ pc' = "checked"
    /\ UNCHANGED <<src, body, nops, doc, inkind, buf, bson, dec, stack>>

\* BSON(buf)
New ==
    /\ pc = "checked"
    /\ bson' = BSON(inkind, buf)
    /\ pc' = "made"
    /\ UNCHANGED <<src, body, nops, doc, inkind, buf, valid, dec, stack>>

\* BSON.from_dict(doc)
FromDict ==
    /\ pc = "build"
    /\ src = "dict"
    /\ \E b \in {from_dict(doc)} :
           /\ bson' = b
           /\ buf' = b.bytes
    /\ inkind' = "BSON"
    /\ pc' = "made"
    /\ UNCHANGED <<src, body, nops, doc, valid, dec, stack>>

\* bson.to_dict(), on a BSON object that exists.
ToDict ==
    /\ pc = "made"
    /\ bson.err = "ok"
    /\ dec' = to_dict(bson.bytes)
    /\ pc' = "decoded"
    /\ UNCHANGED <<src, body, nops, doc, inkind, buf, valid, bson, stack>>

Next ==
    \/ \E b \in RawBytes : Raw(b)
    \/ \E tag \in BlobTags : WrapBlob(tag)
    \/ \E tag \in ElemTags, name \in Names : Elem(tag, name)
    \/ \E tag \in DocTags : WrapDoc(tag)
    \/ Finish
    \/ \E kind \in OtherKinds : WrongKind(kind)
    \/ \E key \in Keys, value \in Scalars : AddItem(key, value)
    \/ \E key \in Keys : NestDict(key)
    \/ \E key \in Keys : NestList(key)
    \/ IsValid
    \/ New
    \/ FromDict
    \/ ToDict

Spec == Init /\ [][Next]_vars

(***************************************************************************)
(* is_valid, one element at a time                                         *)
(***************************************************************************)

\* A call of _validate_document in progress: the bytes its loop over the
\* elements still holds, the pattern of the names, and what it returns once
\* the loop ends.
Frame(data, valid_name, after) ==
    [data |-> data, valid_name |-> valid_name, after |-> after]

\* _validate_document up to its call of _validate_elements.
DocumentHead(data, valid_name) ==
    IF Len(data) < 4 THEN [err |-> "InvalidBSON", frame |-> Frame(<<>>, valid_name, <<>>)]
    ELSE LET obj_size == UnpackInt(SubSeq(data, 1, 4))
             object == PySlice(data, 4, obj_size)
         IN  IF ~(obj_size <= Len(data)) \/ ~(Len(object) # 0) \/ ~(object[Len(object)] = 0)
             THEN [err |-> "AssertionError", frame |-> Frame(<<>>, valid_name, <<>>)]
             ELSE [err |-> "ok",
                   frame |-> Frame(SubSeq(object, 1, Len(object) - 1), valid_name,
                                   PyFrom(data, obj_size))]

\* is_valid ends.
Return(value) ==
    /\ valid' = value
    /\ pc' = "checked"
    /\ stack' = <<>>

Top == stack[Len(stack)]

\* is_valid(buf) up to the loop of the top-level document.
StartValidate ==
    /\ pc = "ready"
    /\ IF inkind \notin ByteKinds THEN Return("TypeError")
       ELSE LET h == DocumentHead(buf, "object")
            IN  IF h.err # "ok" THEN Return(Outcome(h.err))
                ELSE /\ stack' = <<h.frame>>
                     /\ pc' = "walking"
                     /\ valid' = valid
    /\ UNCHANGED <<src, body, nops, doc, inkind, buf, bson, dec>>

\* One turn of the loop of _validate_elements, on an element that holds no
\* document.
LeafElement ==
    /\ pc = "walking"
    /\ Top.data # <<>>
    /\ Top.data[1] \notin DocTags
    /\ \E r \in {_validate_element(Top.data, Top.valid_name)} :
           IF r.err # "ok" THEN Return(Outcome(r.err))
           ELSE /\ stack' = [stack EXCEPT ![Len(stack)].data = r.rest]
                /\ UNCHANGED <<pc, valid>>
    /\ UNCHANGED <<src, body, nops, doc, inkind, buf, bson, dec>>

\* One turn of the loop on an Object or Array element, up to the loop of
\* the document it holds.
EnterDocument ==
    /\ pc = "walking"
    /\ Top.data # <<>>
    /\ Top.data[1] \in DocTags
    /\ \E c \in {_get_c_string(Tail(Top.data))} :
           IF c.err # "ok" THEN Return(Outcome(c.err))
           ELSE IF ~NameMatch(Top.valid_name, c.val.n) THEN Return("False")
           ELSE \E h \in {DocumentHead(c.rest, IF Top.data[1] = 4 THEN "array" ELSE "object")} :
                    IF h.err # "ok" THEN Return(Outcome(h.err))
                    ELSE /\ stack' = Append(stack, h.frame)
                         /\ UNCHANGED <<pc, valid>>
    /\ UNCHANGED <<src, body, nops, doc, inkind, buf, bson, dec>>

\* The loop of a document ends: _validate_document returns what follows the
\* document, to the turn of the loop that called it or to is_valid.
LeaveDocument ==
    /\ pc = "walking"
    /\ Top.data = <<>>
    /\ IF Len(stack) = 1
       THEN Return(IF Top.after = <<>> THEN "True" ELSE "False")
       ELSE /\ stack' = [SubSeq(stack, 1, Len(stack) - 1)
                            EXCEPT ![Len(stack) - 1].data = Top.after]
            /\ UNCHANGED <<pc, valid>>
    /\ UNCHANGED <<src, body, nops, doc, inkind, buf, bson, dec>>

\* The names of the elements of the byte strings followed one element at a
\* time: one that fits an array and one that does not.
WalkNames == {<<>>, <<48>>}

\* The elements and wrappings of the byte strings followed one element at a
\* time.
WalkOps == 2

\* One more element, or one more document around the elements, while the
\* byte string is short.
ShortElem(tag, name) == nops < WalkOps /\ Elem(tag, name)

ShortDoc(tag) == nops < WalkOps /\ WrapDoc(tag)

Step == StartValidate \/ LeafElement \/ EnterDocument \/ LeaveDocument

WalkNext ==
    \/ \E b \in RawBytes : Raw(b)
    \/ \E tag \in BlobTags : WrapBlob(tag)
    \/ \E tag \in ElemTags, name \in WalkNames : ShortElem(tag, name)
    \/ \E tag \in DocTags : ShortDoc(tag)
    \/ Finish
    \/ \E kind \in OtherKinds : WrongKind(kind)
    \/ StartValidate
    \/ LeafElement
    \/ EnterDocument
    \/ LeaveDocument

\* A call that was made goes on until it returns or raises.
WalkSpec == Init /\ [][WalkNext]_vars /\ WF_vars(Step)

(***************************************************************************)
(* What the properties read                                                *)
(***************************************************************************)

\* Python's == on floats: a NaN equals nothing, the two zeros are equal.
FloatEq(f, g) ==
    LET nan(x) == x[2] = 2047 /\ (x[3] # 0 \/ x[4] # 0 \/ x[5] # 0)
        zero(x) == x[2] = 0 /\ x[3] = 0 /\ x[4] = 0 /\ x[5] = 0
    IN  /\ ~nan(f)
        /\ ~nan(g)
        /\ (zero(f) /\ zero(g)) \/ f = g

\* Python's == on the values of the model: True equals 1 and False 0, two
\* dicts are equal when they hold the same keys with equal values (no float
\* of the inputs is a whole number, so a float equals no int).
RECURSIVE PyEq(_, _)
PyEq(a, b) ==
    IF a.k \in {"bool", "int"} /\ b.k \in {"bool", "int"} THEN a.n = b.n
    ELSE IF a.k # b.k THEN FALSE
    ELSE IF a.k = "float" THEN FloatEq(a.n, b.n)
    ELSE IF a.k = "text" THEN a.n = b.n
    ELSE IF a.k = "list"
    THEN /\ Len(a.c) = Len(b.c)
         /\ \A i \in 1..Len(a.c) : PyEq(a.c[i].val, b.c[i].val)
    ELSE IF a.k = "dict"
    THEN /\ Len(a.c) = Len(b.c)
         /\ \A i \in 1..Len(a.c) :
                /\ DictHas(b, a.c[i].key)
                /\ PyEq(a.c[i].val, DictGet(b, a.c[i].key))
    ELSE TRUE

\* The walk of the validator over the argument.
Walk == _validate_document(buf, "object")

ElemEvents(tr) == SelectSeq(tr, LAMBDA ev : ev.e = "elem")

DocEvents(tr) == SelectSeq(tr, LAMBDA ev : ev.e = "doc")

TagsOf(tr) == {ElemEvents(tr)[i].tag : i \in 1..Len(ElemEvents(tr))}

\* The tags the validator knows and the decoder does not.
UndecodableTags == {5, 6, 7, 9, 10, 11, 12, 13, 14}

\* is_valid was called on a byte string.
Checked == pc \in {"checked", "made", "decoded"} /\ src = "bytes" /\ inkind \in ByteKinds

\* to_dict was called on the BSON object, made of the byte string argument
\* or by from_dict.
Decoded == pc = "decoded"

\* from_dict was called on the native dict.
Encoded == pc \in {"made", "decoded"} /\ src = "dict"

(***************************************************************************)
(* C1, C4: the encoder's self-validation                                   *)
(***************************************************************************)

\* C1: for every dict with text keys and supported values, from_dict
\* succeeds and to_dict of its result equals the dict.
C1_RoundTrip ==
    /\ Encoded => bson.err = "ok"
    /\ (Encoded /\ pc = "decoded") => (dec.err = "ok" /\ PyEq(doc, dec.val))

\* No key of the dict, at any depth, holds a zero code point.
RECURSIVE KeysZeroFree(_)
KeysZeroFree(value) ==
    /\ value.k = "dict" =>
           \A i \in 1..Len(value.c) : \A j \in 1..Len(value.c[i].key) : value.c[i].key[j] # 0
    /\ \A i \in 1..Len(Children(value)) : KeysZeroFree(Children(value)[i])

\* C4: for every dict whose keys are texts without a zero code point (a
\* newline is allowed) and whose values are supported, from_dict returns a
\* document: it never raises InvalidBSON from its own validation.
C4_EncoderOutputValid ==
    (Encoded /\ KeysZeroFree(doc)) => bson.err = "ok"

(***************************************************************************)
(* C2: is_valid raises only for an argument that is no byte string         *)
(***************************************************************************)

\* C2: is_valid returns True or False for every byte string and raises
\* TypeError exactly for an argument of another type.
C2_Total ==
    pc = "checked" =>
        /\ inkind \in ByteKinds => valid \in {"True", "False"}
        /\ inkind \notin ByteKinds <=> valid = "TypeError"

(***************************************************************************)
(* C3: top-level framing                                                   *)
(***************************************************************************)

\* What follows an accepted string when trailing bytes are tried.
Extras == {<<0>>, <<1>>, <<0, 0>>, <<5, 0, 0, 0, 0>>}

\* The bytes that replace the final zero byte.
NonZero == {1, 5, 255}

\* C3: when is_valid returns True, the int32 at the start of the string is
\* its length and its last byte is zero; is_valid then returns False for
\* every proper prefix, for the string followed by more bytes, and for the
\* string with its last byte replaced by a non-zero byte.
C3_Framing ==
    (Checked /\ valid = "True") =>
        /\ Len(buf) >= 5
        /\ UnpackInt(SubSeq(buf, 1, 4)) = Len(buf)
        /\ buf[Len(buf)] = 0
        /\ \A n \in 0..(Len(buf) - 1) : is_valid("str", SubSeq(buf, 1, n)) = "False"
        /\ \A x \in Extras : is_valid("str", buf \o x) = "False"
        /\ \A b \in NonZero :
               is_valid("str", [buf EXCEPT ![Len(buf)] = b]) = "False"

\* An accepted string with an embedded document in it.
C3_Witness ==
    /\ Checked
    /\ valid = "True"
    /\ Len(DocEvents(Walk.tr)) >= 2

(***************************************************************************)
(* C5: the declared length of every document                               *)
(***************************************************************************)

\* C5: in a string that is_valid accepts, every document, embedded ones
\* included, declares a length L >= 5 that is 4 + the bytes of its elements
\* + 1, and has a zero byte at offset L-1.
C5_DeclaredLength ==
    (Checked /\ valid = "True") =>
        \A i \in 1..Len(DocEvents(Walk.tr)) :
            LET d == DocEvents(Walk.tr)[i]
            IN  /\ d.L >= 5
                /\ d.L = 4 + d.n + 1
                /\ d.eoo = 0

(***************************************************************************)
(* C7, C9: the decoder on what the validator accepts                       *)
(***************************************************************************)

\* C7: to_dict fails on an accepted string that holds, at any depth, an
\* element of a tag the decoder does not know.
C7_UndecodableFails ==
    (Decoded /\ TagsOf(Walk.tr) \cap UndecodableTags # {}) => dec.err # "ok"

\* C9: on an accepted string whose tags are all decodable, to_dict succeeds
\* and takes for every element the payload bytes the validator took.
C9_SameBoundaries ==
    (Decoded /\ TagsOf(Walk.tr) \subseteq GetterTags) =>
        /\ dec.err = "ok"
        /\ ElemEvents(dec.tr) = ElemEvents(Walk.tr)

(***************************************************************************)
(* C6: the bytes the encoder builds                                        *)
(***************************************************************************)

\* The tag that goes with a kind of value.
TagOfKind(k) ==
    CASE k = "float" -> 1
      [] k = "text"  -> 2
      [] k = "dict"  -> 3
      [] k = "list"  -> 4
      [] k = "bool"  -> 8
      [] k = "int"   -> 16

\* The layout of a dict: int32le(4 + the bytes of the elements + 1), the
\* elements in iteration order, one zero byte.
RECURSIVE Layout(_)
RECURSIVE LayoutElements(_)

\* A list is laid out as the dict of its elements under the keys "0".."n-1",
\* in the iteration order of that dict.
Rekeyed(value) ==
    LET order == ZipDictIndex(Len(value.c))
    IN  PyDict([p \in 1..Len(order) |-> Item(PyStr(order[p]), value.c[order[p] + 1].val)])

LayoutPayload(value) ==
    CASE value.k = "float" -> PackDouble(value.n)
      [] value.k = "text"  -> PackInt(Len(Utf8Encode(value.n)) + 1) \o Utf8Encode(value.n) \o <<0>>
      [] value.k = "dict"  -> Layout(value)
      [] value.k = "list"  -> Layout(Rekeyed(value))
      [] value.k = "bool"  -> IF value.n[1] = 1 THEN <<1>> ELSE <<0>>
      [] value.k = "int"   -> PackInt(value.n[1])

LayoutElements(items) ==
    IF items = <<>> THEN <<>>
    ELSE <<TagOfKind(items[1].val.k)>> \o Utf8Encode(items[1].key) \o <<0>>
         \o LayoutPayload(items[1].val) \o LayoutElements(Tail(items))

Layout(dict) ==
    PackInt(4 + Len(LayoutElements(dict.c)) + 1) \o LayoutElements(dict.c) \o <<0>>

\* "empty"
KeyEmpty == <<101, 109, 112, 116, 121>>

\* C6: what from_dict returns is laid out as int32le(4 + elements + 1), the
\* elements tag + UTF-8 key + zero byte + payload in iteration order, and a
\* zero byte, with the tag and payload of each kind of value; {} gives
\* 05 00 00 00 00 and {"empty": []} gives 11 00 00 00 04 "empty" 00
\* 05 00 00 00 00 00.
C6_Layout ==
    /\ (Encoded /\ bson.err = "ok") => bson.bytes = Layout(doc)
    /\ (Encoded /\ doc = EmptyDict) => bson = Made(<<5, 0, 0, 0, 0>>)
    /\ Encoded =>
           from_dict(PyDict(<<Item(KeyEmpty, PyList(<<>>))>>))
               = Made(<<17, 0, 0, 0, 4>> \o KeyEmpty \o <<0, 5, 0, 0, 0, 0, 0>>)

\* A dict was encoded that holds a list with a bool and another element.
C6_Witness ==
    /\ Encoded
    /\ bson.err = "ok"
    /\ \E i \in 1..Len(doc.c) :
           /\ doc.c[i].val.k = "list"
           /\ Len(doc.c[i].val.c) >= 2
           /\ \E j \in 1..Len(doc.c[i].val.c) : doc.c[i].val.c[j].val.k = "bool"

(***************************************************************************)
(* C8: the list made of an Array element                                   *)
(***************************************************************************)

\* The argument is a document with one element: an Array named "".
SoleArray ==
    /\ Len(buf) >= 12
    /\ buf[5] = 4
    /\ buf[6] = 0
    /\ Walk.err = "ok"
    /\ ElemEvents(Walk.tr)[1].n = Len(buf) - 7

\* The bytes of the elements of that Array's document.
ArrayElements ==
    LET p == SubSeq(buf, 7, Len(buf) - 1)
    IN  PySlice(p, 4, UnpackInt(SubSeq(p, 1, 4)) - 1)

\* The elements of a document one by one, as items in the order of the bytes.
RECURSIVE ItemsOf(_)
ItemsOf(data) ==
    IF data = <<>> THEN Got(PyDict(<<>>), <<>>, <<>>)
    ELSE LET r == _element_to_dict(data)
         IN  IF r.err # "ok" THEN r
             ELSE LET s == ItemsOf(r.rest)
                  IN  IF s.err # "ok" THEN s
                      ELSE Got(PyDict(r.val.c \o s.val.c), <<>>, <<>>)

\* The list for the items of an Array: the value of the last item named "0",
\* of the last named "1", ... up to the first n for which no item is named
\* str(n).
ExpectedArray(items) ==
    LET has(key) == \E j \in 1..Len(items) : items[j].key = key
        last(key) == items[CHOOSE j \in 1..Len(items) :
                               /\ items[j].key = key
                               /\ \A m \in (j + 1)..Len(items) : items[m].key # key].val
        n == CHOOSE m \in 0..Len(items) :
                 /\ ~has(PyStr(m))
                 /\ \A i \in 0..(m - 1) : has(PyStr(i))
    IN  [i \in 1..n |-> last(PyStr(i - 1))]

\* C8: an Array element decodes to the list of the values under "0", "1", ...
\* up to the first missing number, the last of equal names counting; every
\* other element of the Array is dropped without an error.
C8_ArrayStopsAtGap ==
    (Decoded /\ SoleArray /\ ItemsOf(ArrayElements).err = "ok") =>
        /\ dec.err = "ok"
        /\ dec.val = PyDict(<<Item(<<>>, PyList(ExpectedArray(ItemsOf(ArrayElements).val.c)))>>)

\* An Array of two elements of different names decoded to a list of one: an
\* element was dropped.
C8_Witness ==
    /\ Decoded
    /\ SoleArray
    /\ dec.err = "ok"
    /\ Len(ItemsOf(ArrayElements).val.c) = 2
    /\ ItemsOf(ArrayElements).val.c[1].key # ItemsOf(ArrayElements).val.c[2].key
    /\ Len(dec.val.c[1].val.c) = 1

(***************************************************************************)
(* C10: is_valid comes to an end                                           *)
(***************************************************************************)

\* The bytes a turn of the loop was given and the bytes it hands to the next
\* turn, or to the loop of the document it holds.
Shorter ==
    LET n == Len(stack)
        m == Len(stack')
    IN  IF m > n THEN Len(stack'[m].data) < Len(stack[n].data)
        ELSE Len(stack'[m].data) < Len(stack[m].data)

\* One element at a time gives what is_valid gives.
WalkAgrees == (pc = "checked" /\ src = "bytes") => valid = is_valid(inkind, buf)

\* C10: every turn of the loop over the elements goes on with fewer bytes than
\* it was given, every document held by an element has its loop run on fewer
\* bytes than that element's turn was given, and is_valid, once called,
\* returns or raises.
C10_Terminates ==
    /\ [][(pc = "walking" /\ pc' = "walking") => Shorter]_vars
    /\ (pc = "ready" ~> pc = "checked")

\* is_valid is inside a document that declares a negative length.
C10_Witness ==
    /\ pc = "walking"
    /\ Len(stack) = 2
    /\ buf[5] \in DocTags
    /\ buf[6] = 0
    /\ UnpackInt(SubSeq(buf, 7, 10)) < 0

====
